---- MODULE Spec2Model ----
(***************************************************************************)
(* The ePIC device adapter of pyasic (pyasic/miners/backends/epic.py): its *)
(* field registry, its extractors, its mutating actions and get_config,    *)
(* together with one collection cycle over the registry.                   *)
(*                                                                         *)
(* Python values are tagged records [t |-> <type>, ...]; an evaluation     *)
(* yields Ok(value) or Raise(<exception class>).  Strings are sequences of *)
(* one-character strings, mappings are sequences of <<key, value>> pairs   *)
(* in insertion order, numbers are exact rationals n/d.                    *)
(***************************************************************************)
EXTENDS Integers, Sequences, FiniteSets, TLC

VARIABLES pc, op, args, ret, log, config, lastErrors

\* pc, op, args, ret and log describe the call in progress: the operation, what
\* it was given, what it returned or raised and the transport fetches it made.
\* config is self.config.  lastErrors is history: the list the last completed
\* _get_errors call built.
vars == <<pc, op, args, ret, log, config, lastErrors>>

--------------------------------------------------------------------------
(* Python values *)

None == [t |-> "None"]

Bool(b) == [t |-> "bool", v |-> b]

Num(n, d) == [t |-> "num", n |-> n, d |-> d]

Whole(n) == Num(n, 1)

Str(s) == [t |-> "str", v |-> s]

List(s) == [t |-> "list", v |-> s]

Dict(s) == [t |-> "dict", v |-> s]

IsNone(x) == x.t = "None"

Ok(x) == [k |-> "ok", v |-> x]

Raise(e) == [k |-> "raise", e |-> e]

IsOk(r) == r.k = "ok"

IsRaise(r) == r.k = "raise"

\* except LookupError: KeyError and IndexError are its subclasses
LookupErrors == {"LookupError", "KeyError", "IndexError"}

\* except (LookupError, ValueError, TypeError)
ParseErrors == LookupErrors \cup {"ValueError", "TypeError"}

\* bool(x) of a Python value, as `if data:` and `if not web_summary:` use it
Truthy(x) ==
    CASE x.t = "None" -> FALSE
      [] x.t = "bool" -> x.v
      [] x.t = "num" -> x.n # 0
      [] x.t \in {"str", "list", "dict"} -> Len(x.v) > 0
      [] x.t = "key" -> x.v # ""
      [] OTHER -> TRUE

\* a mapping's key as a Python str; the characters of a key are not spelled out
Key(k) == [t |-> "key", v |-> k]

\* the positions of key k in the pairs of a mapping
KeyPos(m, k) == {i \in 1..Len(m.v) : m.v[i][1] = k}

\* obj[key], for any Python values obj and key
GetItem(obj, key) ==
    CASE obj.t = "dict" ->
           IF key.t = "key" /\ KeyPos(obj, key.v) # {}
             THEN Ok(obj.v[CHOOSE i \in KeyPos(obj, key.v) : TRUE][2])
             ELSE Raise("KeyError")
      [] obj.t \in {"list", "str"} ->
           IF key.t # "num" \/ key.d # 1 THEN Raise("TypeError")
           ELSE IF key.n >= 0 /\ key.n < Len(obj.v)
             THEN Ok(IF obj.t = "str" THEN Str(<<obj.v[key.n + 1]>>) ELSE obj.v[key.n + 1])
           ELSE IF key.n < 0 /\ -key.n <= Len(obj.v)
             THEN Ok(IF obj.t = "str" THEN Str(<<obj.v[Len(obj.v) + key.n + 1]>>)
                                     ELSE obj.v[Len(obj.v) + key.n + 1])
           ELSE Raise("IndexError")
      [] OTHER -> Raise("TypeError")

\* obj.get(k): only mappings have the method
GetMethod(obj, k) ==
    IF obj.t = "dict"
      THEN (IF KeyPos(obj, k) # {} THEN GetItem(obj, Key(k)) ELSE Ok(None))
      ELSE Raise("AttributeError")

\* the sequence `for x in obj` walks: a mapping yields its keys
Iterate(obj) ==
    CASE obj.t = "list" -> Ok(obj.v)
      [] obj.t = "dict" -> Ok([i \in 1..Len(obj.v) |-> Key(obj.v[i][1])])
      [] obj.t = "str" -> Ok([i \in 1..Len(obj.v) |-> Str(<<obj.v[i]>>)])
      [] OTHER -> Raise("TypeError")

--------------------------------------------------------------------------
(* exact rational arithmetic for Python's numbers *)

Abs(n) == IF n < 0 THEN -n ELSE n

RECURSIVE Gcd(_, _)
Gcd(a, b) == IF b = 0 THEN a ELSE Gcd(b, a % b)

Reduce(n, d) ==
    LET g == Gcd(Abs(n), Abs(d))
        s == IF d < 0 THEN -1 ELSE 1
    IN  IF g = 0 THEN Num(n, d) ELSE Num(s * (n \div g), s * (d \div g))

\* a + b
Add(a, b) ==
    IF a.t = "num" /\ b.t = "num"
      THEN Ok(Reduce(a.n * b.d + b.n * a.d, a.d * b.d))
      ELSE Raise("TypeError")

\* a / b
Div(a, b) ==
    IF a.t = "num" /\ b.t = "num"
      THEN (IF b.n = 0 THEN Raise("ZeroDivisionError")
            ELSE Ok(Reduce(a.n * b.d, a.d * b.n)))
      ELSE Raise("TypeError")

\* the integer nearest to n/d (d > 0), a tie going to the even one
NearestEven(n, d) ==
    LET q == n \div d
        r == n % d
    IN  IF 2 * r < d THEN q
        ELSE IF 2 * r > d THEN q + 1
        ELSE IF q % 2 = 0 THEN q ELSE q + 1

\* round(x): an int
Round0(x) ==
    IF x.t = "num" THEN Ok(Whole(NearestEven(x.n, x.d))) ELSE Raise("TypeError")

\* round(float(float(x / 1000000)), 2), in hundredths over 100
RoundMega2(x) ==
    IF x.t = "num" THEN Ok(Num(NearestEven(x.n, x.d * 10000), 100))
    ELSE Raise("TypeError")

NumEq(a, b) == a.t = "num" /\ b.t = "num" /\ a.n * b.d = b.n * a.d

--------------------------------------------------------------------------
(* control flow of the extractors *)

\* r, then F of its value unless r raised
Bind(r, F(_)) == IF IsRaise(r) THEN r ELSE F(r.v)

\* obj[k1][k2]
Path(obj, k1, k2) == Bind(GetItem(obj, k1), LAMBDA x : GetItem(x, k2))

\* try: <r> except <caught>: pass, followed by `return <default>`
Catch(r, caught, default) ==
    IF IsRaise(r) /\ r.e \in caught THEN Ok(default) ELSE r

\* a == b of Python
PyEq(a, b) ==
    IF a.t = "num" /\ b.t = "num" THEN NumEq(a, b)
    ELSE a.t = b.t /\ a = b

\* len(x)
PyLen(x) ==
    IF x.t \in {"list", "str", "dict"} THEN Ok(Whole(Len(x.v))) ELSE Raise("TypeError")

--------------------------------------------------------------------------
(* the transport client: self.web.<endpoint>() answers Ok(payload) or     *)
(* raises; dev maps each endpoint to the answer the device gives           *)

Endpoints == {"network", "summary", "hashrate"}

\* if <cond>: try: arg = await self.web.<ep>() except APIError: pass
FetchIf(cond, arg, dev, ep) ==
    IF ~cond THEN [val |-> arg, log |-> <<>>, exc |-> "none"]
    ELSE LET r == dev[ep]
         IN  [val |-> IF IsOk(r) THEN r.v ELSE arg,
              log |-> <<[ep |-> ep, resp |-> r]>>,
              exc |-> IF IsRaise(r) /\ r.e # "APIError" THEN r.e ELSE "none"]

\* the extractor's outcome: what it returns or raises, and the fetches it made
Finish(f, out) ==
    [out |-> IF f.exc # "none" THEN Raise(f.exc) ELSE out, log |-> f.log]

--------------------------------------------------------------------------
(* normalized records of pyasic.data *)

\* Fan(speed): a value that is no number fails to parse
MakeFan(v) ==
    IF v.t = "num" THEN Ok([t |-> "Fan", speed |-> v]) ELSE Raise("ValueError")

\* Fan(): unknown speed
UnknownFan == [t |-> "Fan", speed |-> None]

\* HashBoard(slot=i, expected_chips=n): missing until reported
HashBoard(i, n) ==
    [t |-> "HashBoard", slot |-> Whole(i), expected_chips |-> n, missing |-> Bool(TRUE),
     hashrate |-> None, chips |-> None, temp |-> None]

Digit(n) == <<"0", "1", "2", "3", "4", "5", "6", "7", "8", "9">>[n + 1]

RECURSIVE Digits(_)
Digits(n) == IF n < 10 THEN <<Digit(n)>> ELSE Append(Digits(n \div 10), Digit(n % 10))

\* str(x)
PyStr(x) ==
    CASE x.t = "str" -> x
      [] x.t = "num" /\ x.d = 1 ->
           Str(IF x.n < 0 THEN <<"-">> \o Digits(-x.n) ELSE Digits(x.n))
      [] x.t = "None" -> Str(<<"N", "o", "n", "e">>)
      [] x.t = "bool" -> Str(IF x.v THEN <<"T", "r", "u", "e">> ELSE <<"F", "a", "l", "s", "e">>)
      [] OTHER -> Str(<<"<", x.t, ">">>)

\* X19Error(message)
X19Error(msg) == [t |-> "X19Error", error_message |-> msg]

\* MinerConfig()
MinerConfig == [t |-> "MinerConfig", from |-> "default", payload |-> None]

\* MinerConfig.from_epic(summary)
MinerConfig_from_epic(summary) ==
    [t |-> "MinerConfig", from |-> "epic", payload |-> summary]

--------------------------------------------------------------------------
(* static capability metadata of the adapter instance *)

expected_hashboards == 3

expected_chips == 78

--------------------------------------------------------------------------
(* the extractors: each takes the payloads supplied to it (None when not   *)
(* supplied) and the device, and yields Finish(...)                        *)

_get_mac(web_network, dev) ==
    LET f == FetchIf(IsNone(web_network), web_network, dev, "network")
        body == IF IsNone(f.val) THEN Ok(None)
                ELSE Bind(Iterate(f.val), LAMBDA nets :
                       IF Len(nets) = 0 THEN Ok(None)
                       ELSE Path(f.val, nets[1], Key("mac_address")))
    IN  Finish(f, Catch(body, {"KeyError"}, None))

_get_hostname(web_summary, dev) ==
    LET f == FetchIf(IsNone(web_summary), web_summary, dev, "summary")
        body == IF IsNone(f.val) THEN Ok(None)
                ELSE GetItem(f.val, Key("Hostname"))
    IN  Finish(f, Catch(body, {"KeyError"}, None))

_get_wattage(web_summary, dev) ==
    LET f == FetchIf(IsNone(web_summary), web_summary, dev, "summary")
        body == IF IsNone(f.val) THEN Ok(None)
                ELSE Bind(Path(f.val, Key("Power Supply Stats"), Key("Input Power")),
                          LAMBDA wattage : Round0(wattage))
    IN  Finish(f, Catch(body, {"KeyError"}, None))

\* hashrate += hb["Hashrate"][0] for the boards from position i on
RECURSIVE SumMeasured(_, _, _)
SumMeasured(hbs, i, hashrate) ==
    IF i > Len(hbs) THEN Ok(hashrate)
    ELSE Bind(Path(hbs[i], Key("Hashrate"), Whole(0)), LAMBDA m :
           Bind(Add(hashrate, m), LAMBDA h : SumMeasured(hbs, i + 1, h)))

_get_hashrate(web_summary, dev) ==
    LET f == FetchIf(IsNone(web_summary), web_summary, dev, "summary")
        body == IF IsNone(f.val) THEN Ok(None)
                ELSE Bind(GetItem(f.val, Key("HBs")), LAMBDA HBs :
                       IF IsNone(HBs) THEN Ok(None)
                       ELSE Bind(Iterate(HBs), LAMBDA hbs :
                              Bind(SumMeasured(hbs, 1, Whole(0)), LAMBDA h : RoundMega2(h))))
    IN  Finish(f, Catch(body, ParseErrors, None))

\* ideal = hb["Hashrate"][1] / 100 with no guard for 0
Ideal_NoZeroGuard(pct) == Div(pct, Whole(100))

\* ideal = 1.0 if hb["Hashrate"][1] == 0 else hb["Hashrate"][1] / 100
Ideal(pct) == IF PyEq(pct, Whole(0)) THEN Ok(Whole(1)) ELSE Div(pct, Whole(100))

\* hashrate += hb["Hashrate"][0] / ideal for the boards from position i on
RECURSIVE SumExpected(_, _, _)
SumExpected(hbs, i, hashrate) ==
    IF i > Len(hbs) THEN Ok(hashrate)
    ELSE Bind(Path(hbs[i], Key("Hashrate"), Whole(1)), LAMBDA pct :
           Bind(Ideal(pct), LAMBDA ideal :
             Bind(Path(hbs[i], Key("Hashrate"), Whole(0)), LAMBDA m :
               Bind(Div(m, ideal), LAMBDA q :
                 Bind(Add(hashrate, q), LAMBDA h : SumExpected(hbs, i + 1, h))))))

_get_expected_hashrate(web_summary, dev) ==
    LET f == FetchIf(IsNone(web_summary), web_summary, dev, "summary")
        body == IF IsNone(f.val) THEN Ok(None)
                ELSE Bind(GetMethod(f.val, "HBs"), LAMBDA HBs :
                       IF IsNone(HBs) THEN Ok(None)
                       ELSE Bind(Iterate(HBs), LAMBDA hbs :
                              Bind(SumExpected(hbs, 1, Whole(0)), LAMBDA h : RoundMega2(h))))
    IN  Finish(f, Catch(body, ParseErrors, None))

\* s.split(" "): the pieces between the spaces, cur being the piece in progress
RECURSIVE SplitFrom(_, _, _)
SplitFrom(s, i, cur) ==
    IF i > Len(s) THEN <<Str(cur)>>
    ELSE IF s[i] = " " THEN <<Str(cur)>> \o SplitFrom(s, i + 1, <<>>)
    ELSE SplitFrom(s, i + 1, Append(cur, s[i]))

Split(x) == IF x.t = "str" THEN Ok(List(SplitFrom(x.v, 1, <<>>))) ELSE Raise("AttributeError")

\* s.replace("v", "")
Replace_v(x) == Str(SelectSeq(x.v, LAMBDA c : c # "v"))

_get_fw_ver(web_summary, dev) ==
    LET f == FetchIf(IsNone(web_summary), web_summary, dev, "summary")
        body == IF IsNone(f.val) THEN Ok(None)
                ELSE Bind(GetItem(f.val, Key("Software")), LAMBDA fw_ver :
                       Bind(Split(fw_ver), LAMBDA parts :
                         Bind(GetItem(parts, Whole(1)), LAMBDA tok : Ok(Replace_v(tok)))))
    IN  Finish(f, Catch(body, {"KeyError"}, None))

\* fans.append(Fan(rpm[fan])) with no except clause around it
FanOf_Unguarded(rpm, fan) == Bind(GetItem(rpm, fan), LAMBDA speed : MakeFan(speed))

\* try: fans.append(Fan(rpm[fan])) except (LookupError, ValueError, TypeError): fans.append(Fan())
FanOf(rpm, fan) ==
    LET r == Bind(GetItem(rpm, fan), LAMBDA speed : MakeFan(speed))
    IN  IF IsRaise(r) /\ r.e \in ParseErrors THEN Ok(UnknownFan) ELSE r

RECURSIVE FansFrom(_, _, _, _)
FansFrom(rpm, names, i, fans) ==
    IF i > Len(names) THEN Ok(List(fans))
    ELSE Bind(FanOf(rpm, names[i]), LAMBDA fan : FansFrom(rpm, names, i + 1, Append(fans, fan)))

_get_fans(web_summary, dev) ==
    LET f == FetchIf(IsNone(web_summary), web_summary, dev, "summary")
        body == IF IsNone(f.val) THEN Ok(List(<<>>))
                ELSE Bind(GetItem(f.val, Key("Fans Rpm")), LAMBDA rpm :
                       Bind(Iterate(rpm), LAMBDA names : FansFrom(rpm, names, 1, <<>>)))
    IN  Finish(f, body)

\* hb_list[idx], as a position of the sequence
ListPos(hb_list, idx) ==
    IF idx.t # "num" \/ idx.d # 1 THEN Raise("TypeError")
    ELSE IF idx.n >= 0 /\ idx.n < Len(hb_list) THEN Ok(idx.n + 1)
    ELSE IF idx.n < 0 /\ -idx.n <= Len(hb_list) THEN Ok(Len(hb_list) + idx.n + 1)
    ELSE Raise("IndexError")

\* the body of `for hr in web_hashrate:` for one summary board hb and one entry hr
MatchBoard(hb_list, hb, hr) ==
    Bind(GetItem(hr, Key("Index")), LAMBDA hrIndex :
      Bind(GetItem(hb, Key("Index")), LAMBDA hbIndex :
        IF ~PyEq(hrIndex, hbIndex) THEN Ok(hb_list)
        ELSE Bind(Bind(GetItem(hr, Key("Data")), LAMBDA data : PyLen(data)), LAMBDA num_of_chips :
               Bind(Path(hb, Key("Hashrate"), Whole(0)), LAMBDA hashrate :
                 Bind(ListPos(hb_list, hrIndex), LAMBDA p :
                   Bind(RoundMega2(hashrate), LAMBDA rounded :
                     Bind(GetItem(hb, Key("Temperature")), LAMBDA temp :
                       Ok([hb_list EXCEPT ![p] =
                             [@ EXCEPT !.expected_chips = num_of_chips,
                                       !.missing = Bool(FALSE),
                                       !.hashrate = rounded,
                                       !.chips = num_of_chips,
                                       !.temp = temp]]))))))))

\* the nested loops, i over the summary's boards and j over the hashrate entries
RECURSIVE MatchAll(_, _, _, _, _)
MatchAll(hb_list, hbs, hrs, i, j) ==
    IF i > Len(hbs) THEN Ok(hb_list)
    ELSE IF j > Len(hrs) THEN MatchAll(hb_list, hbs, hrs, i + 1, 1)
    ELSE Bind(MatchBoard(hb_list, hbs[i], hrs[j]), LAMBDA l : MatchAll(l, hbs, hrs, i, j + 1))

\* the condition of the second fetch of _get_hashboards (line 271)
HashrateFetchCond(web_hashrate) == ~IsNone(web_hashrate)

_get_hashboards(web_summary, web_hashrate, dev) ==
    LET f1 == FetchIf(IsNone(web_summary), web_summary, dev, "summary")
        f2 == IF f1.exc # "none" THEN f1
              ELSE FetchIf(HashrateFetchCond(web_hashrate), web_hashrate, dev, "hashrate")
        f == [val |-> None, log |-> IF f1.exc # "none" THEN f1.log ELSE f1.log \o f2.log,
              exc |-> f2.exc]
        hb_list == [i \in 1..expected_hashboards |-> HashBoard(i - 1, Whole(expected_chips))]
        body == Bind(GetMethod(f1.val, "HBs"), LAMBDA HBs :
                  IF IsNone(HBs) THEN Ok(List(hb_list))
                  ELSE Bind(Iterate(HBs), LAMBDA hbs :
                         IF Len(hbs) = 0 THEN Ok(List(hb_list))
                         ELSE Bind(Iterate(f2.val), LAMBDA hrs :
                                Bind(MatchAll(hb_list, hbs, hrs, 1, 1), LAMBDA l : Ok(List(l))))))
    IN  Finish(f, body)

_is_mining == [out |-> Ok(None), log |-> <<>>]

_get_uptime(web_summary, dev) ==
    LET f == FetchIf(IsNone(web_summary), web_summary, dev, "summary")
        body == IF IsNone(f.val) THEN Ok(None)
                ELSE Path(f.val, Key("Session"), Key("Uptime"))
    IN  Finish(f, Catch(body, {"KeyError"}, None))

_get_fault_light(web_summary, dev) ==
    LET f == FetchIf(IsNone(web_summary), web_summary, dev, "summary")
        body == IF IsNone(f.val) THEN Ok(Bool(FALSE))
                ELSE Path(f.val, Key("Misc"), Key("Locate Miner State"))
    IN  Finish(f, Catch(body, {"KeyError"}, Bool(FALSE)))

\* the condition of the fetch of _get_errors (line 329)
ErrorsFetchCond(web_summary) == ~Truthy(web_summary)

\* errors kept across calls (a list shared between the calls)
NewErrors_Kept(earlier) == earlier

\* errors = [], whatever list an earlier call built
NewErrors(earlier) == <<>>

\* if error is not None: errors.append(X19Error(str(error)))
AppendError(errs, error) ==
    IF IsNone(error) THEN errs ELSE Append(errs, X19Error(PyStr(error)))

\* earlier is the list the previous call built
_get_errors(web_summary, dev, earlier) ==
    LET f == FetchIf(ErrorsFetchCond(web_summary), web_summary, dev, "summary")
        body == IF IsNone(f.val) THEN Ok(List(NewErrors(earlier)))
                ELSE Bind(Path(f.val, Key("Status"), Key("Last Error")), LAMBDA error :
                       Ok(List(AppendError(NewErrors(earlier), error))))
    IN  Finish(f, Catch(body, {"KeyError"}, List(NewErrors(earlier))))

_get_api_ver == [out |-> Ok(None), log |-> <<>>]

_get_env_temp == [out |-> Ok(None), log |-> <<>>]

_get_fan_psu == [out |-> Ok(None), log |-> <<>>]

_get_wattage_limit == [out |-> Ok(None), log |-> <<>>]

\* get_config with `if summary:` for `if summary is not None:`
get_config_TruthyPayload(dev) ==
    LET r == dev["summary"]
        caught == IsRaise(r) /\ r.e \in ({"APIError"} \cup LookupErrors)
        summary == IF IsOk(r) THEN r.v ELSE None
        cfg == IF Truthy(summary) THEN MinerConfig_from_epic(summary) ELSE MinerConfig
    IN  IF IsRaise(r) /\ ~caught
          THEN [out |-> r, log |-> <<[ep |-> "summary", resp |-> r]>>, assigned |-> FALSE, cfg |-> None]
          ELSE [out |-> Ok(cfg), log |-> <<[ep |-> "summary", resp |-> r]>>, assigned |-> TRUE, cfg |-> cfg]

\* get_config: the outcome, the fetch, and the value assigned to self.config
get_config(dev) ==
    LET r == dev["summary"]
        caught == IsRaise(r) /\ r.e \in ({"APIError"} \cup LookupErrors)
        summary == IF IsOk(r) THEN r.v ELSE None
        cfg == IF ~IsNone(summary) THEN MinerConfig_from_epic(summary) ELSE MinerConfig
    IN  IF IsRaise(r) /\ ~caught
          THEN [out |-> r, log |-> <<[ep |-> "summary", resp |-> r]>>, assigned |-> FALSE, cfg |-> None]
          ELSE [out |-> Ok(cfg), log |-> <<[ep |-> "summary", resp |-> r]>>, assigned |-> TRUE, cfg |-> cfg]

\* restart_backend, stop_mining, resume_mining, reboot: the same body over the
\* answer r of self.web.<command>()
ActionResult(r) ==
    IF IsRaise(r) THEN r
    ELSE IF Truthy(r.v) THEN Catch(GetItem(r.v, Key("success")), {"KeyError"}, Bool(FALSE))
    ELSE Ok(Bool(FALSE))

restart_backend(r) == ActionResult(r)

stop_mining(r) == ActionResult(r)

resume_mining(r) == ActionResult(r)

reboot(r) == ActionResult(r)

fault_light_off == Ok(Bool(FALSE))

fault_light_on == Ok(Bool(FALSE))

send_config == Ok(None)

set_power_limit == Ok(Bool(FALSE))

--------------------------------------------------------------------------
(* payloads the device can answer with and callers can supply *)

MaxBoards == 2

MaxFans == 2

MaxRequested == 2

\* Seq(S) up to length n
RECURSIVE SeqsUpTo(_, _)
SeqsUpTo(S, n) ==
    IF n = 0 THEN {<<>>}
    ELSE LET shorter == SeqsUpTo(S, n - 1)
         IN  shorter \cup {Append(q, x) : q \in {r \in shorter : Len(r) = n - 1}, x \in S}

\* the mapping d with key k set to v (appended when new), and with k removed
With(d, k, v) ==
    IF KeyPos(d, k) # {}
      THEN Dict([i \in 1..Len(d.v) |-> IF d.v[i][1] = k THEN <<k, v>> ELSE d.v[i]])
      ELSE Dict(Append(d.v, <<k, v>>))

Without(d, k) == Dict(SelectSeq(d.v, LAMBDA kv : kv[1] # k))

Board(index, measured, pct) ==
    Dict(<< <<"Index", Whole(index)>>,
            <<"Hashrate", List(<<Whole(measured), Whole(pct)>>)>>,
            <<"Temperature", Whole(60 + index)>> >>)

GoodSummary ==
    Dict(<< <<"Hostname", Str(<<"e", "1">>)>>,
            <<"Software", Str(<<"e", "P", "I", "C", " ", "v", "1", ".", "2">>)>>,
            <<"Power Supply Stats", Dict(<< <<"Input Power", Num(32507, 10)>> >>)>>,
            <<"HBs", List(<<Board(0, 1234567, 100), Board(1, 2500000, 80)>>)>>,
            <<"Fans Rpm", Dict(<< <<"Fans Speed 0", Whole(1200)>> >>)>>,
            <<"Session", Dict(<< <<"Uptime", Whole(3600)>> >>)>>,
            <<"Misc", Dict(<< <<"Locate Miner State", Bool(TRUE)>> >>)>>,
            <<"Status", Dict(<< <<"Last Error", None>> >>)>> >>)

\* the same device a little later: other readings, an error raised
LaterSummary ==
    With(With(With(GoodSummary,
        "HBs", List(<<Board(1, 2500000, 0)>>)),
        "Status", Dict(<< <<"Last Error", Str(<<"E", "7">>)>> >>)),
        "Misc", Dict(<< <<"Locate Miner State", Bool(FALSE)>> >>))

EmptyDict == Dict(<<>>)

\* structural mismatches, one key at a time
ShapeSummaries ==
    {GoodSummary, LaterSummary, EmptyDict}
    \cup {Without(GoodSummary, k) :
            k \in {"Hostname", "Software", "Power Supply Stats", "HBs", "Fans Rpm",
                   "Session", "Misc", "Status"}}
    \cup {With(GoodSummary, "Software", x) :
            x \in {Str(<<"e", "P", "I", "C">>), Whole(5), None}}
    \cup {With(GoodSummary, "Power Supply Stats", x) :
            x \in {EmptyDict, None, Dict(<< <<"Input Power", Str(<<"n", "a">>)>> >>),
                   Dict(<< <<"Input Power", Num(32505, 10)>> >>)}}
    \cup {With(GoodSummary, "HBs", x) :
            x \in {None, EmptyDict, Whole(3),
                   List(<<Dict(<< <<"Index", Whole(0)>> >>)>>),
                   List(<<With(Board(0, 1234567, 100), "Hashrate", List(<<Whole(1234567)>>))>>),
                   List(<<With(Board(0, 1234567, 100), "Hashrate", List(<<Str(<<"x">>), Whole(100)>>))>>),
                   List(<<Without(Board(0, 1234567, 100), "Temperature")>>),
                   List(<<With(Board(0, 1234567, 100), "Index", Str(<<"0">>))>>)}}
    \cup {With(GoodSummary, "Fans Rpm", x) :
            x \in {None, List(<<Whole(1200)>>), List(<<Whole(0)>>)}}
    \cup {With(GoodSummary, "Session", x) : x \in {EmptyDict, None}}
    \cup {With(GoodSummary, "Misc", x) : x \in {EmptyDict, None}}
    \cup {With(GoodSummary, "Status", x) :
            x \in {EmptyDict, None, Dict(<< <<"Last Error", Whole(7)>> >>),
                   Dict(<< <<"Last Error", Str(<<"E", "7">>)>> >>)}}

\* measured hashrates and ideal-percentages of a board
Measured == {0, 1234567, 2500000}

Percents == {0, 80, 100}

\* summaries whose boards sit at Index 0, 1, ... with every reading
RateSummaries ==
    {With(GoodSummary, "HBs",
          List([i \in 1..Len(q) |-> Board(i - 1, q[i][1], q[i][2])])) :
       q \in SeqsUpTo(Measured \X Percents, MaxBoards)}

\* the indexes a payload may report, one below and one above the slots
BoardIndexes == -1..expected_hashboards

\* summaries whose boards report any indexes
BoardSummaries ==
    {With(GoodSummary, "HBs",
          List([i \in 1..Len(q) |-> Board(q[i], 1234567 * (1 + (i % 2)), 100)])) :
       q \in SeqsUpTo(BoardIndexes, MaxBoards)}

ChipCounts == {1, 2}

HashrateEntry(index, chips) ==
    Dict(<< <<"Index", Whole(index)>>, <<"Data", List([c \in 1..chips |-> Whole(c)])>> >>)

IsIncreasing(q) == \A i \in 1..Len(q) - 1 : q[i][1] < q[i + 1][1]

\* per-chip payloads: one entry per reported index, in index order
IndexedHashrates ==
    {List([i \in 1..Len(q) |-> HashrateEntry(q[i][1], q[i][2])]) :
       q \in {r \in SeqsUpTo(BoardIndexes \X ChipCounts, MaxBoards) : IsIncreasing(r)}}

HashratePayloads ==
    IndexedHashrates
    \cup {List(<<HashrateEntry(1, 1), HashrateEntry(1, 2)>>),
          List(<<Dict(<< <<"Index", Whole(0)>> >>)>>),
          List(<<Dict(<< <<"Index", Str(<<"0">>)>>, <<"Data", List(<<>>)>> >>)>>),
          EmptyDict}

FanNames == <<"Fans Speed 0", "Fans Speed 1", "Fans Speed 2", "Fans Speed 3", "Fans Speed 4">>

FanValues == {Whole(1200), Whole(0), Str(<<"n", "a">>), None}

\* summaries with every "Fans Rpm" mapping of up to MaxFans entries
FanSummaries ==
    {With(GoodSummary, "Fans Rpm", Dict([i \in 1..Len(q) |-> <<FanNames[i], q[i]>>])) :
       q \in SeqsUpTo(FanValues, MaxFans)}

GoodNetwork ==
    Dict(<< <<"dhcp", Dict(<< <<"mac_address", Str(<<"a", "a", ":", "0", "1">>)>> >>)>> >>)

NetworkPayloads ==
    {GoodNetwork, EmptyDict,
     Dict(<< <<"dhcp", Dict(<< <<"ip", Str(<<"1">>)>> >>)>>,
             <<"static", Dict(<< <<"mac_address", Str(<<"b", "b">>)>> >>)>> >>),
     Dict(<< <<"dhcp", Str(<<"u", "p">>)>> >>),
     Dict(<< <<"dhcp", None>> >>),
     List(<<Whole(0)>>)}

\* how a transport call can fail
TransportFailures == {Raise("APIError"), Raise("KeyError")}

\* the answers of the device to each endpoint
DevNetwork == {Ok(GoodNetwork)} \cup TransportFailures

DevSummary ==
    {Ok(GoodSummary), Ok(LaterSummary), Ok(EmptyDict), Ok(None)} \cup TransportFailures

DevHashrate ==
    {Ok(List(<<HashrateEntry(0, 2), HashrateEntry(1, 2)>>)), Ok(List(<<>>))} \cup TransportFailures

\* the devices of a collection cycle: each endpoint answers with a payload or
\* fails with APIError
Devices ==
    [network : {Ok(GoodNetwork), Raise("APIError")},
     summary : {Ok(GoodSummary), Ok(LaterSummary), Raise("APIError")},
     hashrate : {Ok(List(<<HashrateEntry(0, 2), HashrateEntry(1, 2)>>)), Ok(List(<<>>)),
                 Raise("APIError")}]

\* the answers to restart_epic, stop_mining, resume_mining and reboot
ActionAnswers ==
    {Ok(Dict(<< <<"success", Bool(TRUE)>> >>)),
     Ok(Dict(<< <<"success", Bool(FALSE)>> >>)),
     Ok(Dict(<< <<"result", Bool(TRUE)>> >>)),
     Ok(EmptyDict), Ok(None)} \cup TransportFailures

--------------------------------------------------------------------------
(* the field registry and one collection cycle over it *)

WebAPICommand(name, cmd) == [name |-> name, cmd |-> cmd]

DataFunction(cmd, kwargs) == [cmd |-> cmd, kwargs |-> kwargs]

web_network == WebAPICommand("web_network", "network")

web_summary == WebAPICommand("web_summary", "summary")

web_hashrate == WebAPICommand("web_hashrate", "hashrate")

\* the registry's fields, in its order
Fields ==
    <<"MAC", "API_VERSION", "FW_VERSION", "HOSTNAME", "HASHRATE", "EXPECTED_HASHRATE",
      "HASHBOARDS", "ENVIRONMENT_TEMP", "WATTAGE", "WATTAGE_LIMIT", "FANS", "FAN_PSU",
      "ERRORS", "FAULT_LIGHT", "IS_MINING", "UPTIME", "CONFIG">>

FieldSet == {Fields[i] : i \in 1..Len(Fields)}

EPIC_DATA_LOC ==
    [field \in FieldSet |->
       CASE field = "MAC" -> DataFunction("_get_mac", <<web_network>>)
         [] field = "API_VERSION" -> DataFunction("_get_api_ver", <<>>)
         [] field = "FW_VERSION" -> DataFunction("_get_fw_ver", <<web_summary>>)
         [] field = "HOSTNAME" -> DataFunction("_get_hostname", <<web_summary>>)
         [] field = "HASHRATE" -> DataFunction("_get_hashrate", <<web_summary>>)
         [] field = "EXPECTED_HASHRATE" -> DataFunction("_get_expected_hashrate", <<web_summary>>)
         [] field = "HASHBOARDS" -> DataFunction("_get_hashboards", <<web_summary, web_hashrate>>)
         [] field = "ENVIRONMENT_TEMP" -> DataFunction("_get_env_temp", <<>>)
         [] field = "WATTAGE" -> DataFunction("_get_wattage", <<web_summary>>)
         [] field = "WATTAGE_LIMIT" -> DataFunction("_get_wattage_limit", <<>>)
         [] field = "FANS" -> DataFunction("_get_fans", <<web_summary>>)
         [] field = "FAN_PSU" -> DataFunction("_get_fan_psu", <<>>)
         [] field = "ERRORS" -> DataFunction("_get_errors", <<web_summary>>)
         [] field = "FAULT_LIGHT" -> DataFunction("_get_fault_light", <<web_summary>>)
         [] field = "IS_MINING" -> DataFunction("_is_mining", <<>>)
         [] field = "UPTIME" -> DataFunction("_get_uptime", <<web_summary>>)
         [] field = "CONFIG" -> DataFunction("get_config", <<>>)]

\* the endpoints a field declares
Declared(field) ==
    {EPIC_DATA_LOC[field].kwargs[i].cmd : i \in 1..Len(EPIC_DATA_LOC[field].kwargs)}

\* the deduplicated union of the endpoints the requested fields declare
RequiredEndpoints(requested) == UNION {Declared(f) : f \in requested}

\* the payload handed to an extractor for a declared dependency: the cached
\* response, or None for an endpoint whose fetch failed
Supplied(field, name, dev) ==
    LET kw == EPIC_DATA_LOC[field].kwargs
        withName == {i \in 1..Len(kw) : kw[i].name = name}
    IN  IF withName = {} THEN None
        ELSE LET r == dev[kw[CHOOSE i \in withName : TRUE].cmd]
             IN  IF IsOk(r) THEN r.v ELSE None

\* getattr(self, EPIC_DATA_LOC[field].cmd)(**args_to_send)
Invoke(field, dev, earlier) ==
    LET fn == EPIC_DATA_LOC[field].cmd
        ws == Supplied(field, "web_summary", dev)
    IN  CASE fn = "_get_mac" -> _get_mac(Supplied(field, "web_network", dev), dev)
          [] fn = "_get_fw_ver" -> _get_fw_ver(ws, dev)
          [] fn = "_get_hostname" -> _get_hostname(ws, dev)
          [] fn = "_get_hashrate" -> _get_hashrate(ws, dev)
          [] fn = "_get_expected_hashrate" -> _get_expected_hashrate(ws, dev)
          [] fn = "_get_hashboards" ->
               _get_hashboards(ws, Supplied(field, "web_hashrate", dev), dev)
          [] fn = "_get_wattage" -> _get_wattage(ws, dev)
          [] fn = "_get_fans" -> _get_fans(ws, dev)
          [] fn = "_get_errors" -> _get_errors(ws, dev, earlier)
          [] fn = "_get_fault_light" -> _get_fault_light(ws, dev)
          [] fn = "_get_uptime" -> _get_uptime(ws, dev)
          [] fn = "_is_mining" -> _is_mining
          [] fn = "_get_api_ver" -> _get_api_ver
          [] fn = "_get_env_temp" -> _get_env_temp
          [] fn = "_get_fan_psu" -> _get_fan_psu
          [] fn = "_get_wattage_limit" -> _get_wattage_limit
          [] fn = "get_config" ->
               LET c == get_config(dev) IN [out |-> c.out, log |-> c.log]

\* the orchestrator's own fetches: each required endpoint once
RECURSIVE CycleFetches(_, _, _)
CycleFetches(eps, i, dev) ==
    IF i > Len(eps) THEN <<>>
    ELSE <<[ep |-> eps[i], resp |-> dev[eps[i]]]>> \o CycleFetches(eps, i + 1, dev)

EndpointOrder == <<"network", "summary", "hashrate">>

\* every fetch the extractors make during the cycle, in the registry's order
RECURSIVE ExtractorFetches(_, _, _)
ExtractorFetches(results, i, requested) ==
    IF i > Len(Fields) THEN <<>>
    ELSE (IF Fields[i] \in requested THEN results[Fields[i]].log ELSE <<>>)
         \o ExtractorFetches(results, i + 1, requested)

\* collect(requested): the snapshot, absent (None) for an extractor that
\* raised, and every transport fetch of the cycle
Collect(requested, dev, earlier) ==
    LET eps == SelectSeq(EndpointOrder, LAMBDA e : e \in RequiredEndpoints(requested))
        results == [f \in requested |-> Invoke(f, dev, earlier)]
    IN  [snapshot |-> [f \in requested |->
                         IF IsOk(results[f].out) THEN results[f].out.v ELSE None],
         raised |-> {f \in requested : IsRaise(results[f].out)},
         log |-> CycleFetches(eps, 1, dev) \o ExtractorFetches(results, 1, requested)]

\* the subsets of S with at most n elements
RECURSIVE SubsetsUpTo(_, _)
SubsetsUpTo(S, n) ==
    IF n = 0 THEN {{}}
    ELSE LET smaller == SubsetsUpTo(S, n - 1)
         IN  smaller \cup {T \cup {x} : T \in smaller, x \in S}

--------------------------------------------------------------------------
(* the state machine: a caller invokes one operation of the adapter at a   *)
(* time and takes its outcome                                              *)

\* an endpoint the operation does not consult
Unreached == Raise("unreached")

\* the device answers to choose among when cond says the fetch happens
Answers(cond, answers) == IF cond THEN answers ELSE {Unreached}

Device(rn, rs, rh) == [network |-> rn, summary |-> rs, hashrate |-> rh]

Init ==
    /\ pc = "idle"
    /\ op = "none"
    /\ args = <<>>
    /\ ret = Ok(None)
    /\ log = <<>>
    /\ config = None
    /\ lastErrors = <<>>

\* the call of operation o with arguments a, r being its outcome
Call(o, a, r) ==
    /\ pc' = "returned"
    /\ op' = o
    /\ args' = a
    /\ ret' = r.out
    /\ log' = r.log

\* an extractor F over web_summary alone, called with a payload or with none
SummaryCall(o, payloads, F(_, _)) ==
    /\ pc = "idle"
    /\ \E ws \in payloads \cup {None} :
         \E rs \in Answers(IsNone(ws), DevSummary) :
           Call(o, [web_summary |-> ws], F(ws, Device(Unreached, rs, Unreached)))
    /\ UNCHANGED <<config, lastErrors>>

Do_get_mac ==
    /\ pc = "idle"
    /\ \E wn \in NetworkPayloads \cup {None} :
         \E rn \in Answers(IsNone(wn), DevNetwork) :
           Call("_get_mac", [web_network |-> wn], _get_mac(wn, Device(rn, Unreached, Unreached)))
    /\ UNCHANGED <<config, lastErrors>>

Do_get_hostname == SummaryCall("_get_hostname", ShapeSummaries, _get_hostname)

Do_get_wattage == SummaryCall("_get_wattage", ShapeSummaries, _get_wattage)

Do_get_hashrate ==
    SummaryCall("_get_hashrate", ShapeSummaries \cup RateSummaries, _get_hashrate)

Do_get_expected_hashrate ==
    SummaryCall("_get_expected_hashrate", ShapeSummaries \cup RateSummaries,
                _get_expected_hashrate)

Do_get_fw_ver == SummaryCall("_get_fw_ver", ShapeSummaries, _get_fw_ver)

Do_get_fans == SummaryCall("_get_fans", ShapeSummaries \cup FanSummaries, _get_fans)

Do_get_uptime == SummaryCall("_get_uptime", ShapeSummaries, _get_uptime)

Do_get_fault_light == SummaryCall("_get_fault_light", ShapeSummaries, _get_fault_light)

Do_get_errors ==
    /\ pc = "idle"
    /\ \E ws \in ShapeSummaries \cup {None} :
         \E rs \in Answers(ErrorsFetchCond(ws), DevSummary) :
           Call("_get_errors", [web_summary |-> ws],
                _get_errors(ws, Device(Unreached, rs, Unreached), lastErrors))
    /\ UNCHANGED <<config, lastErrors>>

Do_get_hashboards ==
    /\ pc = "idle"
    /\ \E ws \in BoardSummaries \cup ShapeSummaries \cup {None}, wh \in HashratePayloads \cup {None} :
         \E rs \in Answers(IsNone(ws), DevSummary),
            rh \in Answers(HashrateFetchCond(wh), DevHashrate) :
           Call("_get_hashboards", [web_summary |-> ws, web_hashrate |-> wh],
                _get_hashboards(ws, wh, Device(Unreached, rs, rh)))
    /\ UNCHANGED <<config, lastErrors>>

\* _is_mining, _get_api_ver, _get_env_temp, _get_fan_psu, _get_wattage_limit
DoStatic ==
    /\ pc = "idle"
    /\ \E o \in {"_is_mining", "_get_api_ver", "_get_env_temp", "_get_fan_psu",
                 "_get_wattage_limit"} :
         Call(o, <<>>,
              CASE o = "_is_mining" -> _is_mining
                [] o = "_get_api_ver" -> _get_api_ver
                [] o = "_get_env_temp" -> _get_env_temp
                [] o = "_get_fan_psu" -> _get_fan_psu
                [] o = "_get_wattage_limit" -> _get_wattage_limit)
    /\ UNCHANGED <<config, lastErrors>>

Do_get_config ==
    /\ pc = "idle"
    /\ \E rs \in DevSummary :
         LET c == get_config(Device(Unreached, rs, Unreached))
         IN  /\ Call("get_config", <<>>, c)
             /\ config' = IF c.assigned THEN c.cfg ELSE config
    /\ UNCHANGED lastErrors

\* restart_backend, stop_mining, resume_mining, reboot
DoAction ==
    /\ pc = "idle"
    /\ \E o \in {"restart_backend", "stop_mining", "resume_mining", "reboot"},
          r \in ActionAnswers :
         Call(o, [answer |-> r],
              [out |-> CASE o = "restart_backend" -> restart_backend(r)
                         [] o = "stop_mining" -> stop_mining(r)
                         [] o = "resume_mining" -> resume_mining(r)
                         [] o = "reboot" -> reboot(r),
               log |-> <<>>])
    /\ UNCHANGED <<config, lastErrors>>

\* fault_light_off, fault_light_on, send_config, set_power_limit
DoStub ==
    /\ pc = "idle"
    /\ \E o \in {"fault_light_off", "fault_light_on", "send_config", "set_power_limit"} :
         Call(o, <<>>,
              [out |-> CASE o = "fault_light_off" -> fault_light_off
                         [] o = "fault_light_on" -> fault_light_on
                         [] o = "send_config" -> send_config
                         [] o = "set_power_limit" -> set_power_limit,
               log |-> <<>>])
    /\ UNCHANGED <<config, lastErrors>>

\* one collection cycle; the device answers each endpoint the same way
\* throughout the cycle
DoCollect ==
    /\ pc = "idle"
    /\ \E requested \in SubsetsUpTo(FieldSet, MaxRequested), dev \in Devices :
         LET c == Collect(requested, dev, lastErrors)
             cfg == get_config(dev)
         IN  /\ Call("collect", [requested |-> requested, dev |-> dev],
                     [out |-> Ok([snapshot |-> c.snapshot, raised |-> c.raised]), log |-> c.log])
             /\ config' = IF "CONFIG" \in requested /\ cfg.assigned THEN cfg.cfg ELSE config
    /\ UNCHANGED lastErrors

\* the errors list the completed call built, if it ran _get_errors
BuiltErrors ==
    CASE op = "_get_errors" /\ IsOk(ret) -> ret.v.v
      [] op = "collect" /\ "ERRORS" \in args.requested /\ "ERRORS" \notin ret.v.raised ->
           ret.v.snapshot["ERRORS"].v
      [] OTHER -> lastErrors

\* the caller takes the outcome
Return ==
    /\ pc = "returned"
    /\ pc' = "idle"
    /\ op' = "none"
    /\ args' = <<>>
    /\ ret' = Ok(None)
    /\ log' = <<>>
    /\ lastErrors' = BuiltErrors
    /\ UNCHANGED config

\* the whole adapter
Next ==
    \/ Do_get_mac
    \/ Do_get_hostname
    \/ Do_get_wattage
    \/ Do_get_hashrate
    \/ Do_get_expected_hashrate
    \/ Do_get_fw_ver
    \/ Do_get_fans
    \/ Do_get_hashboards
    \/ Do_get_uptime
    \/ Do_get_fault_light
    \/ Do_get_errors
    \/ DoStatic
    \/ Do_get_config
    \/ DoAction
    \/ DoStub
    \/ DoCollect
    \/ Return

Spec == Init /\ [][Next]_vars

\* the operations over one payload: every extractor but _get_hashboards,
\* get_config and the actions
NextExtract ==
    \/ Do_get_mac
    \/ Do_get_hostname
    \/ Do_get_wattage
    \/ Do_get_hashrate
    \/ Do_get_expected_hashrate
    \/ Do_get_fw_ver
    \/ Do_get_fans
    \/ Do_get_uptime
    \/ Do_get_fault_light
    \/ Do_get_errors
    \/ DoStatic
    \/ Do_get_config
    \/ DoAction
    \/ DoStub
    \/ Return

SpecExtract == Init /\ [][NextExtract]_vars

--------------------------------------------------------------------------
(* vocabulary of the properties *)

PayloadExtractors ==
    {"_get_mac", "_get_hostname", "_get_wattage", "_get_hashrate", "_get_expected_hashrate",
     "_get_fw_ver", "_get_fans", "_get_hashboards", "_get_uptime", "_get_fault_light",
     "_get_errors"}

StaticExtractors ==
    {"_is_mining", "_get_api_ver", "_get_env_temp", "_get_fan_psu", "_get_wattage_limit"}

ActionOps == {"restart_backend", "stop_mining", "resume_mining", "reboot"}

Returned(ops) == pc = "returned" /\ op \in ops

\* the payload the call was given for endpoint ep, None when it was given none
ArgFor(ep) ==
    LET name == CASE ep = "network" -> "web_network"
                  [] ep = "summary" -> "web_summary"
                  [] ep = "hashrate" -> "web_hashrate"
    IN  IF name \in DOMAIN args THEN args[name] ELSE None

\* how often the call fetched endpoint ep
Fetched(ep) == Cardinality({i \in 1..Len(log) : log[i].ep = ep})

\* no transport call of the call failed otherwise than with APIError
OnlyAPIErrors == \A i \in 1..Len(log) : IsOk(log[i].resp) \/ log[i].resp = Raise("APIError")

NoDevice == Device(Unreached, Unreached, Unreached)

\* the extractor o on arguments a against device dev
Extract(o, a, dev) ==
    CASE o = "_get_mac" -> _get_mac(a.web_network, dev)
      [] o = "_get_hostname" -> _get_hostname(a.web_summary, dev)
      [] o = "_get_wattage" -> _get_wattage(a.web_summary, dev)
      [] o = "_get_hashrate" -> _get_hashrate(a.web_summary, dev)
      [] o = "_get_expected_hashrate" -> _get_expected_hashrate(a.web_summary, dev)
      [] o = "_get_fw_ver" -> _get_fw_ver(a.web_summary, dev)
      [] o = "_get_fans" -> _get_fans(a.web_summary, dev)
      [] o = "_get_hashboards" -> _get_hashboards(a.web_summary, a.web_hashrate, dev)
      [] o = "_get_uptime" -> _get_uptime(a.web_summary, dev)
      [] o = "_get_fault_light" -> _get_fault_light(a.web_summary, dev)
      [] o = "_get_errors" -> _get_errors(a.web_summary, dev, lastErrors)

--------------------------------------------------------------------------
(* C1: in one collection cycle each endpoint is fetched through the        *)
(* transport at most once, and the number of fetches of the cycle, those   *)
(* made inside extractors included, is the size of the deduplicated union  *)
(* of the endpoints the requested fields declare.                          *)
C1_OneFetchPerDeclaredEndpoint ==
    Returned({"collect"}) =>
      /\ \A ep \in Endpoints : Fetched(ep) <= 1
      /\ Len(log) = Cardinality(RequiredEndpoints(args.requested))

\* the fields whose only declared dependency is endpoint ep
SoleDependents(ep) == {f \in FieldSet : Declared(f) = {ep}}

(* C2: when the fetch of an endpoint fails with APIError in a cycle, every *)
(* requested field that depends on that endpoint alone resolves to absent  *)
(* (None, without its extractor raising), and every requested field that   *)
(* does not declare the endpoint resolves to the value it has when the     *)
(* endpoint answers.                                                       *)
C2_FaultIsolation ==
    Returned({"collect"}) =>
      \A ep \in Endpoints :
        args.dev[ep] = Raise("APIError") =>
          /\ \A f \in args.requested \cap SoleDependents(ep) :
               IsNone(ret.v.snapshot[f]) /\ f \notin ret.v.raised
          /\ \A f \in args.requested :
               ep \notin Declared(f) =>
                 \A r \in {x \in Devices : IsOk(x[ep])} :
                   Collect({f}, [args.dev EXCEPT ![ep] = r[ep]], <<>>).snapshot[f]
                     = ret.v.snapshot[f]

(* C3: restart_backend, stop_mining, resume_mining and reboot return the   *)
(* response's success flag when the response holds one and False in every  *)
(* other case (an empty or null response, no "success" key, the transport  *)
(* raising APIError); they never raise.                                    *)
C3_ActionsReturnFlagOrFalse ==
    (Returned(ActionOps) /\ args.answer # Raise("KeyError")) =>
      /\ IsOk(ret)
      /\ ret.v = IF IsOk(args.answer) /\ args.answer.v.t = "dict"
                    /\ KeyPos(args.answer.v, "success") # {}
                   THEN GetItem(args.answer.v, Key("success")).v
                   ELSE Bool(FALSE)

(* C4: every extractor, on every payload shape and with the transport      *)
(* failing with APIError, returns a value or absent and never raises.      *)
C4_ExtractorsNeverRaise ==
    (Returned(PayloadExtractors \cup StaticExtractors) /\ OnlyAPIErrors) => IsOk(ret)

(* C5: get_config never raises and always returns a configuration object   *)
(* to which self.config is set: the one translated from the summary        *)
(* payload when the fetch returned a payload, the empty default one when   *)
(* the fetch failed (APIError or a lookup failure) or returned none.       *)
C5_ConfigAlwaysRetrieved ==
    Returned({"get_config"}) =>
      /\ Len(log) = 1
      /\ log[1].ep = "summary"
      /\ IsOk(ret)
      /\ config = ret.v
      /\ ret.v = IF IsOk(log[1].resp) /\ ~IsNone(log[1].resp.v)
                   THEN MinerConfig_from_epic(log[1].resp.v)
                   ELSE MinerConfig

C5_Witness ==
    /\ Returned({"get_config"})
    /\ log[1].resp = Raise("KeyError")
    /\ config = MinerConfig

(* C6: an extractor given a payload for a declared dependency makes no     *)
(* transport fetch for that dependency and computes its result from the    *)
(* supplied payload, whatever the device would answer; it fetches only a   *)
(* dependency it was not given.                                            *)
C6_NoFetchOfSuppliedPayload ==
    Returned(PayloadExtractors) =>
      /\ \A i \in 1..Len(log) : IsNone(ArgFor(log[i].ep))
      /\ (\A name \in DOMAIN args : ~IsNone(args[name])) =>
           \A dev \in Devices : Extract(op, args, dev).out = ret

\* the value under key k of a mapping that has it
Field(m, k) == GetItem(m, Key(k)).v

\* the Index values a list payload reports, in order
Indexes(payload) == [j \in 1..Len(payload.v) |-> Field(payload.v[j], "Index").n]

Slots == 0..(expected_hashboards - 1)

IsDistinct(q) == \A i, j \in 1..Len(q) : q[i] = q[j] => i = j

\* both payloads supplied, each board and entry reported once, at an index
\* that is a slot of the adapter
BoardsCase ==
    /\ args.web_summary \in BoardSummaries
    /\ args.web_hashrate \in IndexedHashrates
    /\ IsDistinct(Indexes(Field(args.web_summary, "HBs")))
    /\ \A j \in 1..Len(Field(args.web_summary, "HBs").v) :
         Indexes(Field(args.web_summary, "HBs"))[j] \in Slots
    /\ \A j \in 1..Len(args.web_hashrate.v) : Indexes(args.web_hashrate)[j] \in Slots

(* C7: _get_hashboards returns one record per expected hashboard, the      *)
(* record at position i having slot i; slot i is flagged not-missing       *)
(* exactly when the summary's "HBs" reports a board with Index i and the   *)
(* hashrate payload holds an entry with that Index, and then its chip      *)
(* count is the length of the entry's "Data" and its hashrate and          *)
(* temperature are those of the summary's board.                           *)
C7_HashboardsBySlot ==
    (Returned({"_get_hashboards"}) /\ BoardsCase) =>
      /\ IsOk(ret)
      /\ ret.v.t = "list"
      /\ Len(ret.v.v) = expected_hashboards
      /\ \A i \in Slots :
           LET board == ret.v.v[i + 1]
               hbs == Field(args.web_summary, "HBs")
               hrs == args.web_hashrate
               inSummary == {j \in 1..Len(hbs.v) : Indexes(hbs)[j] = i}
               inHashrate == {j \in 1..Len(hrs.v) : Indexes(hrs)[j] = i}
           IN  /\ board.slot = Whole(i)
               /\ (board.missing = Bool(FALSE)) <=> (inSummary # {} /\ inHashrate # {})
               /\ (inSummary # {} /\ inHashrate # {}) =>
                    LET hb == hbs.v[CHOOSE j \in inSummary : TRUE]
                        hr == hrs.v[CHOOSE j \in inHashrate : TRUE]
                    IN  /\ board.chips = Whole(Len(Field(hr, "Data").v))
                        /\ board.temp = Field(hb, "Temperature")
                        /\ board.hashrate
                             = Num(NearestEven(Field(hb, "Hashrate").v[1].n, 10000), 100)

\* the "Fans Rpm" mapping of the summary the call was given
FansRpm == Field(args.web_summary, "Fans Rpm")

\* a summary was supplied and its "Fans Rpm" is a mapping
FansCase ==
    /\ ~IsNone(args.web_summary)
    /\ KeyPos(args.web_summary, "Fans Rpm") # {}
    /\ FansRpm.t = "dict"

(* C8: _get_fans returns one Fan per entry of the "Fans Rpm" mapping, in   *)
(* the mapping's order: the entry's speed when its value is a number, an   *)
(* unknown-speed Fan when it cannot be parsed; a malformed entry neither   *)
(* shortens the list nor stops the extraction of the entries after it.     *)
C8_OneFanPerEntry ==
    (Returned({"_get_fans"}) /\ FansCase) =>
      /\ IsOk(ret)
      /\ ret.v.t = "list"
      /\ Len(ret.v.v) = Len(FansRpm.v)
      /\ \A i \in 1..Len(FansRpm.v) :
           ret.v.v[i].speed = IF FansRpm.v[i][2].t = "num" THEN FansRpm.v[i][2] ELSE None

C8_Witness ==
    /\ Returned({"_get_fans"})
    /\ FansCase
    /\ Len(FansRpm.v) = 2
    /\ FansRpm.v[1][2] = Str(<<"n", "a">>)
    /\ FansRpm.v[2][2] = Whole(1200)
    /\ ret = Ok(List(<<UnknownFan, [t |-> "Fan", speed |-> Whole(1200)]>>))

\* the boards of the summary the call was given, as <<measured, percentage>>
Readings ==
    LET hbs == Field(args.web_summary, "HBs").v
    IN  [j \in 1..Len(hbs) |->
           <<Field(hbs[j], "Hashrate").v[1].n, Field(hbs[j], "Hashrate").v[2].n>>]

\* the sum over the boards from j on of measured / (percentage / 100), a
\* percentage of 0 counting as a divisor of 1, as a fraction in lowest terms
RECURSIVE IdealSum(_, _)
IdealSum(q, j) ==
    IF j > Len(q) THEN Whole(0)
    ELSE LET share == IF q[j][2] = 0 THEN Whole(q[j][1]) ELSE Reduce(q[j][1] * 100, q[j][2])
             rest == IdealSum(q, j + 1)
         IN  Reduce(share.n * rest.d + rest.n * share.d, share.d * rest.d)

\* a summary was supplied whose "HBs" is a list of boards with numeric readings
RatesCase == args.web_summary \in RateSummaries

LastError == Field(Field(args.web_summary, "Status"), "Last Error")

\* a summary was supplied that holds Status / "Last Error"
ErrorsCase ==
    /\ args.web_summary.t = "dict"
    /\ KeyPos(args.web_summary, "Status") # {}
    /\ Field(args.web_summary, "Status").t = "dict"
    /\ KeyPos(Field(args.web_summary, "Status"), "Last Error") # {}

(* C10: _get_errors given a summary returns an empty list when Status /    *)
(* "Last Error" is null and a list of exactly the one normalized error of  *)
(* that value otherwise; the list never has more than one element, and an  *)
(* error of an earlier call is not carried into a later result.            *)
C10_AtMostTheLastError ==
    Returned({"_get_errors"}) =>
      /\ IsOk(ret) => (ret.v.t = "list" /\ Len(ret.v.v) <= 1)
      /\ ErrorsCase =>
           /\ log = <<>>
           /\ ret = Ok(List(IF IsNone(LastError) THEN <<>>
                            ELSE <<X19Error(PyStr(LastError))>>))

C10_Witness ==
    /\ Returned({"_get_errors"})
    /\ ErrorsCase
    /\ Len(lastErrors) = 1
    /\ IsNone(LastError)
    /\ ret = Ok(List(<<>>))

====
